---------------------------- MODULE Spec2Model ----------------------------
(***************************************************************************)
(* Model of the PCB magazine generator: the three builders make_frame,     *)
(* make_bone and make_assembly (src/models), export_shape (src/exporter),  *)
(* the command line (src/app.py) and the GUI (src/ui).                     *)
(*                                                                         *)
(* Specifications.  Spec: one caller invoking the builders.  SpecTwoCalls: *)
(* the same, with an earlier finished call kept for comparison.            *)
(* SpecExport: export_shape and runs of main.  SpecRealize: the four       *)
(* copies of the loop that realizes a placement list.  SpecGui: the        *)
(* handlers of MainWindow.                                                 *)
(*                                                                         *)
(* Lengths.  The code computes with Python floats; the model computes with *)
(* exact lengths on a fixed grid of UNIT steps per millimetre.  UNIT is    *)
(* 4000 so that every operation of the code is exact on the inputs drawn:  *)
(* a, b and d are multiples of 0.01 mm and c of 0.001 mm (the grain of the *)
(* GUI's spin boxes), so x/2, (i+0.5)*c and 0.45*(b/2) all stay on the     *)
(* grid.  Floating-point rounding is not modelled.                         *)
(*                                                                         *)
(* Solids.  The CAD kernel (cadquery) is outside the repository.  A solid  *)
(* is modelled by what the builders put into it: the boxes, rectangles,    *)
(* points and polylines they hand to the kernel, together with the         *)
(* axis-aligned bounding box the kernel's contract gives (a centred box    *)
(* spans +-size/2; an extruded profile spans its points in XY and          *)
(* [0, thickness] in Z; cuts and chamfers never enlarge a solid).          *)
(***************************************************************************)
EXTENDS Integers, Sequences, FiniteSets, TLC

VARIABLES
    DEFAULTS,   \* bone_model.DEFAULTS, the module-level dict
    call,       \* the builder call in progress or just finished, with its arguments
    profile,    \* the profile values the last make_bone run computed, if any
    result,     \* what the call returned, or that it raised
    earlier,    \* history: an earlier finished call, kept for comparison
    fs,         \* the files written and directories made by export_shape
    gui,        \* MainWindow's widgets: view, spin values, export format
    viewer,     \* what the VTKViewer's plotter displays
    size_value, \* the text of MainWindow.size_value
    dialog      \* the message box the last GUI handler raised, if any

\* the state outside the builders and their caller
app_vars == <<fs, gui, viewer, size_value, dialog>>

vars == <<DEFAULTS, call, profile, result, earlier, app_vars>>

---------------------------------------------------------------------------
(* Fixed-point lengths *)

UNIT == 4 * 1000

\* n millimetres
Mm(n) == n * UNIT

\* n hundredths of a millimetre (the grain of a, b, d)
Cmm(n) == n * (UNIT \div 100)

\* n thousandths of a millimetre (the grain of c)
Umm(n) == n * (UNIT \div 1000)

\* x / 2 and x / 2.0 (exact on the grid)
Half(x) == x \div 2

Max(x, y) == IF x >= y THEN x ELSE y

Min(x, y) == IF x <= y THEN x ELSE y

---------------------------------------------------------------------------
(* Bounds on the inputs drawn *)

MaxN == 10

N_VALUES == 1 .. MaxN

A_VALUES == {Mm(10), Mm(90), Cmm(12345)}

C_VALUES == {Umm(100), Umm(1600), Umm(1605)}

D_VALUES == {Cmm(10), Mm(10), Cmm(255)}

B_VALUES == {Cmm(5), Cmm(20), Mm(1), Mm(5), Mm(8), Mm(12), Mm(16), Mm(80),
             Mm(120)}

\* overrides handed to make_bone(**params)
L_VALUES == {Mm(-1), 0, Cmm(5), Mm(8), Mm(40), Mm(100)}

X_OUT_VALUES == {Mm(9)}

X_MID_VALUES == {Mm(6), 0}

X_IN_VALUES == {Mm(1), Mm(-2)}

THICKNESS_VALUES == {Mm(3)}

\* a keyword argument that is absent ({}) or present with one value ({v})
Opt(S) == {{}} \cup {{v} : v \in S}

Kw(k, o) == [x \in {kk \in {k} : o # {}} |-> CHOOSE v \in o : TRUE]

---------------------------------------------------------------------------
(* models/frame_model.py: construction constants *)

LEN_EXTRA == Mm(5)

PLATE_T == Mm(8)

NOSE_DEPTH == Mm(3)

FRAME_WALL_X == Mm(10) - NOSE_DEPTH

FRAME_WALL_Y == Mm(10)

TOP_BOTTOM_MARGIN == Mm(2)

CONNECTOR_H == Mm(5)

CONNECTOR_W == Mm(6)

CONNECTOR_XOFF == Mm(8)

CHAMFER_X == Mm(4)

CHAMFER_Z == PLATE_T

---------------------------------------------------------------------------
(* Kernel contract *)

\* Workplane("XY").center(cx, cy).box(sx, sy, sz): a box centred on (cx, cy, 0)
Box(cx, cy, sx, sy, sz) ==
    [xlo |-> cx - Half(sx), xhi |-> cx + Half(sx),
     ylo |-> cy - Half(sy), yhi |-> cy + Half(sy),
     zlo |-> -Half(sz),     zhi |-> Half(sz)]

\* translate((dx, dy, dz)) of a bounding box
TranslateBox(bb, dx, dy, dz) ==
    [xlo |-> bb.xlo + dx, xhi |-> bb.xhi + dx,
     ylo |-> bb.ylo + dy, yhi |-> bb.yhi + dy,
     zlo |-> bb.zlo + dz, zhi |-> bb.zhi + dz]

\* mirror(mirrorPlane="XY") of a bounding box: z -> -z
MirrorXYBox(bb) ==
    [xlo |-> bb.xlo, xhi |-> bb.xhi,
     ylo |-> bb.ylo, yhi |-> bb.yhi,
     zlo |-> -bb.zhi, zhi |-> -bb.zlo]

---------------------------------------------------------------------------
(* models/frame_model.py *)

\* mutation: the nose after the last slot is not counted
active_height_n_noses(n, slot_w, nose_w) == n * slot_w + n * nose_w

active_height(n, slot_w, nose_w) == n * slot_w + (n + 1) * nose_w

\* mutation: the slot is placed by its lower edge instead of its centre
y_center_no_half(y0, i, c_slot, d_nose) == y0 + i * c_slot + i * d_nose

\* y_center of slot i (0-based): y0 + (i + 0.5) * c_slot + i * d_nose
y_center(y0, i, c_slot, d_nose) ==
    y0 + Half((2 * i + 1) * c_slot) + i * d_nose

\* mutation: the right-hand connectors are offset without the half width
connector_centers_skewed(outer_x, outer_y) ==
    LET x_left  == -Half(outer_x) + CONNECTOR_XOFF + Half(CONNECTOR_W)
        x_right == Half(outer_x) - CONNECTOR_XOFF
        y_top   == Half(outer_y) - Half(CONNECTOR_H)
        y_bot   == -Half(outer_y) + Half(CONNECTOR_H)
    IN  << <<x_left, y_top>>, <<x_right, y_top>>,
           <<x_left, y_bot>>, <<x_right, y_bot>> >>

\* the four connector rectangle centres, in the order of the list `centers`
connector_centers(outer_x, outer_y) ==
    LET x_left  == -Half(outer_x) + CONNECTOR_XOFF + Half(CONNECTOR_W)
        x_right == Half(outer_x) - CONNECTOR_XOFF - Half(CONNECTOR_W)
        y_top   == Half(outer_y) - Half(CONNECTOR_H)
        y_bot   == -Half(outer_y) + Half(CONNECTOR_H)
    IN  << <<x_left, y_top>>, <<x_right, y_top>>,
           <<x_left, y_bot>>, <<x_right, y_bot>> >>

\* Triangular wedge.  The kernel's "XZ" workplane has its normal along -Y:
\* workplane(offset=y_bottom) puts the sketch plane at Y = -y_bottom and
\* extrude(CONNECTOR_H) runs from there towards -Y.  The sketch's local
\* (u, v) are the global (X, Z).
make_wedge_at_edge(x_edge, y_ctr, x_dir) ==
    LET y_bottom == y_ctr - Half(CONNECTOR_H)
        u0 == x_edge
        v0 == -Half(PLATE_T)
    IN  [tri |-> << <<u0, v0>>, <<u0 + x_dir * CHAMFER_X, v0>>,
                    <<u0, v0 + CHAMFER_Z>> >>,
         ylo |-> -y_bottom - CONNECTOR_H,
         yhi |-> -y_bottom]

make_frame(a_len, c_slot, d_nose, n) ==
    LET inner_x == a_len + LEN_EXTRA
        inner_y == active_height(n, c_slot, d_nose)
        outer_x == inner_x + 2 * FRAME_WALL_X
        outer_y == inner_y + 2 * (FRAME_WALL_Y + TOP_BOTTOM_MARGIN)
        plate   == Box(0, 0, outer_x, outer_y, PLATE_T)
        left_rail  == Box(-Half(inner_x) + Half(NOSE_DEPTH), 0,
                          NOSE_DEPTH, inner_y, PLATE_T)
        right_rail == Box(Half(inner_x) - Half(NOSE_DEPTH), 0,
                          NOSE_DEPTH, inner_y, PLATE_T)
        y0 == -Half(inner_y) + d_nose
        cuts == [k \in 1 .. n |->
                   LET yc == y_center(y0, k - 1, c_slot, d_nose)
                   IN  [y_center |-> yc,
                        cut_left  |-> Box(-Half(inner_x) + Half(NOSE_DEPTH), yc,
                                          NOSE_DEPTH, c_slot, PLATE_T + Cmm(20)),
                        cut_right |-> Box(Half(inner_x) - Half(NOSE_DEPTH), yc,
                                          NOSE_DEPTH, c_slot, PLATE_T + Cmm(20))]]
        centers == connector_centers(outer_x, outer_y)
        wedges  == [k \in 1 .. 4 |->
                      [wl |-> make_wedge_at_edge(centers[k][1] - Half(CONNECTOR_W),
                                                 centers[k][2], -1),
                       wr |-> make_wedge_at_edge(centers[k][1] + Half(CONNECTOR_W),
                                                 centers[k][2], 1)]]
    IN  [kind    |-> "frame",
         plate   |-> [x |-> outer_x, y |-> outer_y, z |-> PLATE_T],
         window  |-> [x |-> inner_x, y |-> inner_y],
         rails   |-> <<left_rail, right_rail>>,
         slots   |-> cuts,
         centers |-> centers,
         wedges  |-> wedges,
         mirrored |-> FALSE,
         bbox    |-> plate]

---------------------------------------------------------------------------
(* Kernel contract: rotations, compounds, extrusions *)

\* one quarter turn (+90 degrees) about an axis through the origin
QuarterTurnBox(bb, axis) ==
    CASE axis = "X" ->   \* (x, y, z) -> (x, -z, y)
           [xlo |-> bb.xlo, xhi |-> bb.xhi,
            ylo |-> -bb.zhi, yhi |-> -bb.zlo,
            zlo |-> bb.ylo, zhi |-> bb.yhi]
      [] axis = "Y" ->   \* (x, y, z) -> (z, y, -x)
           [xlo |-> bb.zlo, xhi |-> bb.zhi,
            ylo |-> bb.ylo, yhi |-> bb.yhi,
            zlo |-> -bb.xhi, zhi |-> -bb.xlo]
      [] axis = "Z" ->   \* (x, y, z) -> (-y, x, z)
           [xlo |-> -bb.yhi, xhi |-> -bb.ylo,
            ylo |-> bb.xlo, yhi |-> bb.xhi,
            zlo |-> bb.zlo, zhi |-> bb.zhi]

RECURSIVE QuarterTurns(_, _, _)
QuarterTurns(bb, axis, k) ==
    IF k = 0 THEN bb ELSE QuarterTurns(QuarterTurnBox(bb, axis), axis, k - 1)

\* rotate((0,0,0), axis, deg) of a bounding box, deg a multiple of 90
RotateBox(bb, axis, deg) == QuarterTurns(bb, axis, (deg \div 90) % 4)

SeqMin(s) == CHOOSE m \in {s[i] : i \in DOMAIN s} :
                 \A i \in DOMAIN s : m <= s[i]

SeqMax(s) == CHOOSE m \in {s[i] : i \in DOMAIN s} :
                 \A i \in DOMAIN s : m >= s[i]

\* polyline(pts).close().extrude(thickness) on the XY workplane
ExtrudeBox(pts, thickness) ==
    [xlo |-> SeqMin([i \in DOMAIN pts |-> pts[i][1]]),
     xhi |-> SeqMax([i \in DOMAIN pts |-> pts[i][1]]),
     ylo |-> SeqMin([i \in DOMAIN pts |-> pts[i][2]]),
     yhi |-> SeqMax([i \in DOMAIN pts |-> pts[i][2]]),
     zlo |-> Min(0, thickness),
     zhi |-> Max(0, thickness)]

\* Compound.makeCompound(shapes).BoundingBox()
CompoundBox(bbs) ==
    [xlo |-> SeqMin([i \in DOMAIN bbs |-> bbs[i].xlo]),
     xhi |-> SeqMax([i \in DOMAIN bbs |-> bbs[i].xhi]),
     ylo |-> SeqMin([i \in DOMAIN bbs |-> bbs[i].ylo]),
     yhi |-> SeqMax([i \in DOMAIN bbs |-> bbs[i].yhi]),
     zlo |-> SeqMin([i \in DOMAIN bbs |-> bbs[i].zlo]),
     zhi |-> SeqMax([i \in DOMAIN bbs |-> bbs[i].zhi])]

\* Workplane methods: each returns a new solid and leaves its receiver alone
translate(solid, v) ==
    [solid EXCEPT !.bbox = TranslateBox(@, v[1], v[2], v[3])]

mirrorXY(solid) ==
    [solid EXCEPT !.bbox = MirrorXYBox(@), !.mirrored = ~@]

rotate(solid, axis, deg) ==
    [solid EXCEPT !.bbox = RotateBox(@, axis, deg)]

---------------------------------------------------------------------------
(* models/bone_model.py *)

DEFAULTS0 ==
    [b |-> Mm(80), thickness |-> Mm(5), x_out |-> Mm(7), x_mid |-> Mm(5),
     x_in |-> Mm(3), l_dovetail |-> Mm(8), bone_w |-> Mm(10),
     edge_ch |-> Cmm(50)]

\* mutation: strict comparisons, so l = 0 and l = b/2 pass unclamped
clamp_dovetail_strict(L_DOVETAIL, half_total) ==
    IF L_DOVETAIL < 0 \/ L_DOVETAIL > half_total
    THEN Max(Cmm(10), Min((half_total * 45) \div 100, L_DOVETAIL))
    ELSE L_DOVETAIL

\* Keep dovetail length within sensible bounds:
\*   if L <= 0 or L >= half_total: L = max(0.1, min(half_total * 0.45, L))
clamp_dovetail(L_DOVETAIL, half_total) ==
    IF L_DOVETAIL <= 0 \/ L_DOVETAIL >= half_total
    THEN Max(Cmm(10), Min((half_total * 45) \div 100, L_DOVETAIL))
    ELSE L_DOVETAIL

\* mutation: P12 repeats the shoulder width instead of the step width
bone_pts_p12(X_OUT, X_MID, X_IN, Y_OUTER, Y_INNER) ==
    << << X_OUT,  Y_OUTER>>,
       <<-X_OUT,  Y_OUTER>>,
       <<-X_IN,   Y_INNER>>,
       <<-X_MID,  Y_INNER>>,
       <<-X_MID, -Y_INNER>>,
       <<-X_IN,  -Y_INNER>>,
       <<-X_OUT, -Y_OUTER>>,
       << X_OUT, -Y_OUTER>>,
       << X_IN,  -Y_INNER>>,
       << X_MID, -Y_INNER>>,
       << X_MID,  Y_INNER>>,
       << X_MID,  Y_INNER>>,
       << X_OUT,  Y_OUTER>> >>

\* the 2D outline P1..P13
bone_pts(X_OUT, X_MID, X_IN, Y_OUTER, Y_INNER) ==
    << << X_OUT,  Y_OUTER>>,
       <<-X_OUT,  Y_OUTER>>,
       <<-X_IN,   Y_INNER>>,
       <<-X_MID,  Y_INNER>>,
       <<-X_MID, -Y_INNER>>,
       <<-X_IN,  -Y_INNER>>,
       <<-X_OUT, -Y_OUTER>>,
       << X_OUT, -Y_OUTER>>,
       << X_IN,  -Y_INNER>>,
       << X_MID, -Y_INNER>>,
       << X_MID,  Y_INNER>>,
       << X_IN,   Y_INNER>>,
       << X_OUT,  Y_OUTER>> >>

\* make_bone up to the outline: everything computed before the first
\* kernel call
bone_locals(params) ==
    LET p == params @@ DEFAULTS
        half_total == Half(p.b)
        L_DOVETAIL == clamp_dovetail(p.l_dovetail, half_total)
        Y_OUTER == half_total
        Y_INNER == half_total - L_DOVETAIL
    IN  [b          |-> p.b,
         THICKNESS  |-> p.thickness,
         X_OUT      |-> p.x_out,
         X_MID      |-> p.x_mid,
         X_IN       |-> p.x_in,
         EDGE_CH    |-> p.edge_ch,
         half_total |-> half_total,
         L_DOVETAIL |-> L_DOVETAIL,
         Y_OUTER    |-> Y_OUTER,
         Y_INNER    |-> Y_INNER,
         pts        |-> bone_pts(p.x_out, p.x_mid, p.x_in, Y_OUTER, Y_INNER)]

\* the solid: the outline extruded by THICKNESS (the edge chamfers only
\* remove material at the shoulders and leave the extents alone)
make_bone(params) ==
    LET v == bone_locals(params)
    IN  [kind      |-> "bone",
         pts       |-> v.pts,
         thickness |-> v.THICKNESS,
         edge_ch   |-> v.EDGE_CH,
         mirrored  |-> FALSE,
         bbox      |-> ExtrudeBox(v.pts, v.THICKNESS)]

---------------------------------------------------------------------------
(* models/assembly.py *)

BONE_X_INSET == Mm(11)

\* mutation: the bottom frame is raised by a whole plate thickness
frame1_of_full_plate(frame_raw) == translate(frame_raw, <<0, 0, PLATE_T>>)

\* bottom frame: underside at Z = 0
frame1_of(frame_raw) == translate(frame_raw, <<0, 0, Half(PLATE_T)>>)

\* mutation: the top frame is raised by b - PLATE_T instead of b - PLATE_T/2
frame2_of_full_plate(frame_raw, b) ==
    translate(mirrorXY(frame_raw), <<0, 0, b - PLATE_T>>)

\* top frame: mirrored in Z, top face at Z = b
frame2_of(frame_raw, b) ==
    translate(mirrorXY(frame_raw), <<0, 0, b - Half(PLATE_T)>>)

\* bones stand upright
bone_raw_of(b) == rotate(make_bone([b |-> b]), "X", 90)

\* bone centre height
zc_of(b) == Half(b)

corners_of(outer_x, outer_y) ==
    << << Half(outer_x),  Half(outer_y)>>,
       <<-Half(outer_x),  Half(outer_y)>>,
       <<-Half(outer_x), -Half(outer_y)>>,
       << Half(outer_x), -Half(outer_y)>> >>

\* mutation: the Y nudge is applied to the positive-Y corners
bone_translation_upper(x, y, zc, bone_thickness) ==
    LET x_in == IF x > 0 THEN x - BONE_X_INSET ELSE x + BONE_X_INSET
        y_in == IF y > 0 THEN y + bone_thickness ELSE y
    IN  <<x_in, y_in, zc>>

\* the translation of the bone at corner (x, y)
bone_translation(x, y, zc, bone_thickness) ==
    LET x_in == IF x > 0 THEN x - BONE_X_INSET ELSE x + BONE_X_INSET
        y_in == IF y < 0 THEN y + bone_thickness ELSE y
    IN  <<x_in, y_in, zc>>

\* mutation: the top frame is appended first
frame_placements_swapped(frame1, frame2) ==
    << <<frame2, <<0, 0, 0>>, <<0, 0, 0>> >>,
       <<frame1, <<0, 0, 0>>, <<0, 0, 0>> >> >>

\* placements.append((frame1, ...)); placements.append((frame2, ...))
frame_placements(frame1, frame2) ==
    << <<frame1, <<0, 0, 0>>, <<0, 0, 0>> >>,
       <<frame2, <<0, 0, 0>>, <<0, 0, 0>> >> >>

make_assembly(a, c, d, n, b) ==
    LET frame_raw == make_frame(a, c, d, n)
        frame1 == frame1_of(frame_raw)
        frame2 == frame2_of(frame_raw, b)
        f_bb == frame1.bbox
        outer_x == f_bb.xhi - f_bb.xlo
        outer_y == f_bb.yhi - f_bb.ylo
        bone_raw == bone_raw_of(b)
        zc == zc_of(b)
        corners == corners_of(outer_x, outer_y)
        bone_thickness == DEFAULTS.thickness
    IN  frame_placements(frame1, frame2)
        \o [k \in 1 .. Len(corners) |->
              <<bone_raw,
                bone_translation(corners[k][1], corners[k][2], zc, bone_thickness),
                <<0, 0, 0>> >>]

---------------------------------------------------------------------------
(* app.py: realizing a placement list *)

\* one placement (shp, (dx, dy, dz), (rz, ry, rx)) realized:
\* rotations about Z, Y, X (a zero angle skipped), then the translation
Realize(pl) ==
    LET shp == pl[1]
        rz == pl[3][1]
        ry == pl[3][2]
        rx == pl[3][3]
        w1 == IF rz # 0 THEN rotate(shp, "Z", rz) ELSE shp
        w2 == IF ry # 0 THEN rotate(w1, "Y", ry) ELSE w1
        w3 == IF rx # 0 THEN rotate(w2, "X", rx) ELSE w2
    IN  translate(w3, pl[2])

\* moved_vals of a placement list
MovedVals(model) == [k \in DOMAIN model |-> Realize(model[k])]

---------------------------------------------------------------------------
(* State machine: one caller invoking the builders *)

NoCall == [fn |-> "none"]

NoResult == [status |-> "none"]

NoProfile == [b |-> 0, pts |-> <<>>]

\* A kernel operation that fails raises out of the builder.  `raises` says
\* whether and where the kernel fails: "none", "frame" (while the frame is
\* built, moved or measured) or "bone" (after make_bone has computed its
\* outline: while the bone is extruded, chamfered or rotated).
Outcome(raises, value) ==
    IF raises = "none" THEN [status |-> "ok", value |-> value]
    ELSE [status |-> "raised", error |-> "kernel"]

\* the working directory of the process
CWD == <<"home", "user">>

\* a directory and the directories above it
Ancestors(parts) == {SubSeq(parts, 1, k) : k \in 1 .. Len(parts)}

\* nothing exported yet: the working directory exists, no model file does
NoFiles == [dirs |-> Ancestors(CWD), files |-> {}]

\* the GUI is not running
NoGui == [running |-> FALSE]

\* the plotter after _reset_view: no mesh
EmptyScene == [shown |-> FALSE]

\* the label's initial text, also set when measuring fails
NoSize == [measured |-> FALSE]

NoDialog == [kind |-> "none"]

\* no earlier call is kept
NoEarlier ==
    [call |-> NoCall, profile |-> NoProfile, result |-> NoResult,
     between |-> FALSE]

Init ==
    /\ DEFAULTS = DEFAULTS0
    /\ call = NoCall
    /\ profile = NoProfile
    /\ result = NoResult
    /\ earlier = NoEarlier
    /\ fs = NoFiles
    /\ gui = NoGui
    /\ viewer = EmptyScene
    /\ size_value = NoSize
    /\ dialog = NoDialog

\* mutation: the overrides are written into the module-level dict
\* (DEFAULTS.update(params))
DEFAULTS_updated(params) == params @@ DEFAULTS

\* DEFAULTS after make_bone(**params): {**DEFAULTS, **params} builds a new
\* dict and nothing assigns to DEFAULTS or to one of its keys
DEFAULTS_after(params) == DEFAULTS

\* a call of make_frame with arguments from the given sets
MakeFrameCall(As, Cs, Ds, Ns) ==
    /\ call = NoCall
    /\ \E a \in As, c \in Cs, d \in Ds, n \in Ns,
          raises \in {"none", "frame"} :
        /\ call' = [fn |-> "make_frame", a |-> a, c |-> c, d |-> d, n |-> n,
                    raises |-> raises]
        /\ result' = Outcome(raises, make_frame(a, c, d, n))
    /\ UNCHANGED <<DEFAULTS, profile>>

\* a call of make_bone whose keyword arguments are given or left out as the
\* option sets allow
MakeBoneCall(OBs, OLs, OXOs, OXMs, OXIs, OTs) ==
    /\ call = NoCall
    /\ \E ob \in OBs, ol \in OLs, oxo \in OXOs, oxm \in OXMs, oxi \in OXIs,
          ot \in OTs, raises \in {"none", "bone"} :
        LET params == Kw("b", ob) @@ Kw("l_dovetail", ol) @@ Kw("x_out", oxo)
                      @@ Kw("x_mid", oxm) @@ Kw("x_in", oxi)
                      @@ Kw("thickness", ot)
        IN  /\ call' = [fn |-> "make_bone", params |-> params,
                        raises |-> raises]
            /\ profile' = bone_locals(params)
            /\ result' = Outcome(raises, make_bone(params))
            /\ DEFAULTS' = DEFAULTS_after(params)

\* a call of make_assembly with arguments from the given sets; it calls
\* make_bone(b=b) unless the frame already failed
MakeAssemblyCall(As, Cs, Ds, Ns, Bs) ==
    /\ call = NoCall
    /\ \E a \in As, c \in Cs, d \in Ds, n \in Ns, b \in Bs,
          raises \in {"none", "frame", "bone"} :
        /\ call' = [fn |-> "make_assembly", a |-> a, c |-> c, d |-> d, n |-> n,
                    b |-> b, raises |-> raises]
        /\ profile' = IF raises = "frame" THEN NoProfile
                      ELSE bone_locals([b |-> b])
        /\ result' = Outcome(raises, make_assembly(a, c, d, n, b))
        /\ DEFAULTS' = IF raises = "frame" THEN DEFAULTS
                       ELSE DEFAULTS_after([b |-> b])

\* the caller is done with the returned value (or the exception)
Done ==
    /\ call # NoCall
    /\ call' = NoCall
    /\ profile' = NoProfile
    /\ result' = NoResult
    /\ UNCHANGED DEFAULTS

CallMakeFrame ==
    /\ MakeFrameCall(A_VALUES, C_VALUES, D_VALUES, N_VALUES)
    /\ UNCHANGED <<earlier, app_vars>>

CallMakeBone ==
    /\ MakeBoneCall(Opt(B_VALUES), Opt(L_VALUES), Opt(X_OUT_VALUES),
                    Opt(X_MID_VALUES), Opt(X_IN_VALUES), Opt(THICKNESS_VALUES))
    /\ UNCHANGED <<earlier, app_vars>>

CallMakeAssembly ==
    /\ MakeAssemblyCall(A_VALUES, C_VALUES, D_VALUES, N_VALUES, B_VALUES)
    /\ UNCHANGED <<earlier, app_vars>>

Finish ==
    /\ Done
    /\ UNCHANGED <<earlier, app_vars>>

Next ==
    \/ CallMakeFrame
    \/ CallMakeBone
    \/ CallMakeAssembly
    \/ Finish

Spec == Init /\ [][Next]_vars

---------------------------------------------------------------------------
(* Two calls compared: the same caller, with an earlier finished call kept *)

MaxFewN == 2

A_FEW == {Mm(10), Mm(90)}

C_FEW == {Umm(1600)}

D_FEW == {Mm(10)}

N_FEW == 1 .. MaxFewN

B_FEW == {Mm(5), Mm(120)}

L_FEW == {Mm(8)}

X_IN_FEW == {Mm(1)}

\* the request of a call: the builder and its arguments, without the
\* kernel's behaviour during the call
Request(cl) == [k \in DOMAIN cl \ {"raises"} |-> cl[k]]

\* a finished call with a request other than the kept one has run
StepBetween ==
    IF earlier.call # NoCall /\ Request(call) # Request(earlier.call)
    THEN [earlier EXCEPT !.between = TRUE]
    ELSE earlier

AgainMakeFrame ==
    /\ MakeFrameCall(A_FEW, C_FEW, D_FEW, N_FEW)
    /\ UNCHANGED <<earlier, app_vars>>

AgainMakeBone ==
    /\ MakeBoneCall(Opt(B_FEW), Opt(L_FEW), {{}}, {{}}, Opt(X_IN_FEW), {{}})
    /\ UNCHANGED <<earlier, app_vars>>

AgainMakeAssembly ==
    /\ MakeAssemblyCall(A_FEW, C_FEW, D_FEW, N_FEW, B_FEW)
    /\ UNCHANGED <<earlier, app_vars>>

\* the call is finished and kept for comparison
FinishKept ==
    /\ Done
    /\ earlier' = [call |-> call, profile |-> profile, result |-> result,
                   between |-> FALSE]
    /\ UNCHANGED app_vars

\* the call is finished and not kept
FinishPassed ==
    /\ Done
    /\ earlier' = StepBetween
    /\ UNCHANGED app_vars

NextTwoCalls ==
    \/ AgainMakeFrame
    \/ AgainMakeBone
    \/ AgainMakeAssembly
    \/ FinishKept
    \/ FinishPassed

SpecTwoCalls == Init /\ [][NextTwoCalls]_vars

---------------------------------------------------------------------------
(* exporter/exporter.py and the command line of app.py.  A string that the *)
(* code inspects is the sequence of its characters; a path is its parts    *)
(* and whether it is absolute.                                             *)

\* str.lower() on the letters that occur in the format strings drawn
LOWER_OF ==
    ("S" :> "s") @@ ("T" :> "t") @@ ("L" :> "l") @@ ("E" :> "e")
    @@ ("P" :> "p") @@ ("O" :> "o") @@ ("B" :> "b") @@ ("J" :> "j")

lower(str) ==
    [i \in DOMAIN str |->
        IF str[i] \in DOMAIN LOWER_OF THEN LOWER_OF[str[i]] ELSE str[i]]

\* format strings handed to export_shape
FMT_VALUES ==
    {<<"s", "t", "l">>, <<"S", "T", "L">>, <<"S", "t", "l">>,
     <<"s", "t", "e", "p">>, <<"S", "T", "E", "P">>, <<"S", "t", "e", "p">>,
     <<"s", "t", "p">>, <<"S", "T", "P">>,
     <<"o", "b", "j">>, <<"s", "t", "l", " ">>, <<"s", "t", "e", "p", "s">>,
     <<"s", "t">>, <<>>}

\* out paths handed to export_shape
OUT_PATHS ==
    {[abs |-> FALSE, parts |-> <<"out", "model.stl">>],
     [abs |-> TRUE, parts |-> <<"srv", "m.step">>]}

\* Path.parent
parent(out) == [out EXCEPT !.parts = SubSeq(@, 1, Len(@) - 1)]

\* Path.resolve(): an absolute path stays, a relative one is taken from the
\* working directory
resolve(out) ==
    [abs |-> TRUE, parts |-> IF out.abs THEN out.parts ELSE CWD \o out.parts]

\* Path.mkdir(parents=True, exist_ok=True)
mkdir(dirs, dir) == dirs \cup Ancestors(resolve(dir).parts)

\* Compound.makeCompound(moved_vals) wrapped in a Workplane
makeCompound(moved_vals) ==
    [kind   |-> "compound",
     solids |-> moved_vals,
     bbox   |-> CompoundBox([k \in DOMAIN moved_vals |-> moved_vals[k].bbox])]

\* cq.exporters.export(shape, str(out), exportType): the file at out now
\* holds the shape in that encoding
exported(files, shape, out, exportType) ==
    {f \in files : f.path # resolve(out).parts}
    \cup {[path   |-> resolve(out).parts,
           type   |-> exportType,
           kind   |-> shape.kind,
           solids |-> IF shape.kind = "compound" THEN Len(shape.solids)
                      ELSE 1]}

\* mutation: the format is compared as given, without fmt.lower()
export_shape_as_given(shape, out_path, fmt) ==
    LET made == [fs EXCEPT !.dirs = mkdir(@, parent(out_path))]
    IN  IF fmt = <<"s", "t", "l">>
        THEN [status |-> "ok", value |-> resolve(out_path),
              fs |-> [made EXCEPT !.files = exported(@, shape, out_path, "STL")]]
        ELSE IF fmt \in {<<"s", "t", "e", "p">>, <<"s", "t", "p">>}
        THEN [status |-> "ok", value |-> resolve(out_path),
              fs |-> [made EXCEPT !.files = exported(@, shape, out_path, "STEP")]]
        ELSE [status |-> "raised", error |-> "ValueError", fs |-> made]

\* export_shape: what it returns or raises, and the files afterwards
export_shape(shape, out_path, fmt) ==
    LET fmt_l == lower(fmt)
        out == out_path
        made == [fs EXCEPT !.dirs = mkdir(@, parent(out))]
    IN  IF fmt_l = <<"s", "t", "l">>
        THEN [status |-> "ok", value |-> resolve(out),
              fs |-> [made EXCEPT !.files = exported(@, shape, out, "STL")]]
        ELSE IF fmt_l \in {<<"s", "t", "e", "p">>, <<"s", "t", "p">>}
        THEN [status |-> "ok", value |-> resolve(out),
              fs |-> [made EXCEPT !.files = exported(@, shape, out, "STEP")]]
        ELSE [status |-> "raised", error |-> "ValueError", fs |-> made]

\* what the caller of export_shape gets
Returned(r) ==
    IF r.status = "ok" THEN [status |-> "ok", value |-> r.value]
    ELSE [status |-> "raised", error |-> r.error]

\* where the kernel can fail while a component is built
RaisesOf(component) ==
    CASE component = "frame" -> {"none", "frame"}
      [] component = "bone" -> {"none", "bone"}
      [] component = "assembly" -> {"none", "frame", "bone"}

COMPONENTS == {"frame", "bone", "assembly"}

\* argparse: the defaults of -a, -b, -c, -d, -n and the choices of --fmt
CLI_DEFAULTS ==
    [a |-> Mm(90), b |-> Mm(120), c |-> Umm(1600), d |-> Mm(10), n |-> 10]

CLI_FMT_CHOICES == {<<"s", "t", "l">>, <<"s", "t", "e", "p">>}

\* main, build step: the model of the chosen component
cli_model(args, raises) ==
    IF args.component = "frame"
    THEN Outcome(raises, make_frame(args.a, args.c, args.d, args.n))
    ELSE IF args.component = "bone"
    THEN Outcome(raises, make_bone([b |-> args.b]))
    ELSE Outcome(raises, make_assembly(args.a, args.c, args.d, args.n, args.b))

\* main, export step: an assembly is realized and combined, a single part
\* is exported as it is
cli_export(args, model) ==
    IF args.component = "assembly"
    THEN export_shape(makeCompound(MovedVals(model)), args.out, args.fmt)
    ELSE export_shape(model, args.out, args.fmt)

\* shapes handed to export_shape
EXPORT_SHAPES ==
    {make_frame(Mm(90), Umm(1600), Mm(10), 1),
     make_bone(<<>>),
     makeCompound(MovedVals(make_assembly(Mm(90), Umm(1600), Mm(10), 1,
                                          Mm(120))))}

\* export_shape called with any format string
CallExportShape ==
    /\ \E shape \in EXPORT_SHAPES, out_path \in OUT_PATHS, fmt \in FMT_VALUES :
        \E r \in {export_shape(shape, out_path, fmt)} :
            /\ call' = [fn |-> "export_shape", shape |-> shape.kind,
                        out_path |-> out_path, fmt |-> fmt]
            /\ result' = Returned(r)
            /\ fs' = r.fs
    /\ UNCHANGED <<DEFAULTS, profile, earlier, gui, viewer, size_value, dialog>>

\* python app.py --nogui --component ... --fmt ... --out ...: one run of
\* main; an exception ends the process before anything is written
Main ==
    /\ \E component \in COMPONENTS, out \in OUT_PATHS, fmt \in CLI_FMT_CHOICES :
        \E raises \in RaisesOf(component) :
          \E args \in {[component |-> component, out |-> out, fmt |-> fmt]
                        @@ CLI_DEFAULTS} :
            \E model \in {cli_model(args, raises)} :
                /\ call' = [fn |-> "main", component |-> component,
                            out_path |-> out, fmt |-> fmt, raises |-> raises]
                /\ DEFAULTS' = IF component = "frame" \/ raises = "frame"
                               THEN DEFAULTS
                               ELSE DEFAULTS_after([b |-> args.b])
                /\ IF model.status = "ok"
                   THEN \E r \in {cli_export(args, model.value)} :
                            result' = Returned(r) /\ fs' = r.fs
                   ELSE result' = model /\ fs' = fs
    /\ UNCHANGED <<profile, earlier, gui, viewer, size_value, dialog>>

NextExport ==
    \/ CallExportShape
    \/ Main

SpecExport == Init /\ [][NextExport]_vars

---------------------------------------------------------------------------
(* ui/main_window.py and ui/viewer.py: the other copies of the loop that   *)
(* realizes a placement list                                               *)

\* MainWindow.export_model: moved_vals of the assembly branch
export_moved_vals(model) ==
    [k \in DOMAIN model |->
        LET shp == model[k][1]
            dx == model[k][2][1]
            dy == model[k][2][2]
            dz == model[k][2][3]
            rz == model[k][3][1]
            ry == model[k][3][2]
            rx == model[k][3][3]
            wp0 == shp
            wp1 == IF rz # 0 THEN rotate(wp0, "Z", rz) ELSE wp0
            wp2 == IF ry # 0 THEN rotate(wp1, "Y", ry) ELSE wp1
            wp3 == IF rx # 0 THEN rotate(wp2, "X", rx) ELSE wp2
        IN  translate(wp3, <<dx, dy, dz>>)]

\* MainWindow._compute_bounding_box.apply_transform
apply_transform(wp, dx, dy, dz, rz, ry, rx) ==
    LET wp1 == IF rz # 0 THEN rotate(wp, "Z", rz) ELSE wp
        wp2 == IF ry # 0 THEN rotate(wp1, "Y", ry) ELSE wp1
        wp3 == IF rx # 0 THEN rotate(wp2, "X", rx) ELSE wp2
    IN  translate(wp3, <<dx, dy, dz>>)

\* MainWindow._compute_bounding_box: solids of the list branch
bounding_box_solids(model) ==
    [k \in DOMAIN model |->
        apply_transform(model[k][1],
                        model[k][2][1], model[k][2][2], model[k][2][3],
                        model[k][3][1], model[k][3][2], model[k][3][3])]

\* MainWindow._compute_bounding_box: (bb.xlen, bb.ylen, bb.zlen)
_compute_bounding_box(model, is_list) ==
    LET solids == bounding_box_solids(model)
        bb == IF is_list
              THEN CompoundBox([k \in DOMAIN solids |-> solids[k].bbox])
              ELSE model.bbox
    IN  <<bb.xhi - bb.xlo, bb.yhi - bb.ylo, bb.zhi - bb.zlo>>

\* mutation: the rotations are applied about X, then Y, then Z
_combine_assembly_xyz(items) ==
    makeCompound(
        [k \in DOMAIN items |->
            LET shp == items[k][1]
                rz == items[k][3][1]
                ry == items[k][3][2]
                rx == items[k][3][3]
                wp1 == IF rx # 0 THEN rotate(shp, "X", rx) ELSE shp
                wp2 == IF ry # 0 THEN rotate(wp1, "Y", ry) ELSE wp1
                wp3 == IF rz # 0 THEN rotate(wp2, "Z", rz) ELSE wp2
            IN  translate(wp3, items[k][2])])

\* VTKViewer._combine_assembly: the compound of all transformed parts
_combine_assembly(items) ==
    makeCompound(
        [k \in DOMAIN items |->
            LET shp == items[k][1]
                dx == items[k][2][1]
                dy == items[k][2][2]
                dz == items[k][2][3]
                rz == items[k][3][1]
                ry == items[k][3][2]
                rx == items[k][3][3]
                wp0 == shp
                wp1 == IF rz # 0 THEN rotate(wp0, "Z", rz) ELSE wp0
                wp2 == IF ry # 0 THEN rotate(wp1, "Y", ry) ELSE wp1
                wp3 == IF rx # 0 THEN rotate(wp2, "X", rx) ELSE wp2
            IN  translate(wp3, <<dx, dy, dz>>)])

\* placement lists handed to the four loops: a solid that is neither
\* centred nor symmetric, turned by multiples of 90 degrees and moved;
\* one such placement, two of them in either order, and the lists
\* make_assembly returns
SAMPLE_SOLID ==
    [kind |-> "sample", mirrored |-> FALSE,
     bbox |-> TranslateBox(Box(0, 0, Mm(2), Mm(4), Mm(6)), Mm(2), Mm(3), Mm(5))]

ANGLES == {0, 90, 180, -90}

OFFSETS == {<<0, 0, 0>>, <<Mm(1), Mm(-2), Mm(3)>>}

PLACEMENTS ==
    {<<SAMPLE_SOLID, v, <<rz, ry, rx>> >> :
        v \in OFFSETS, rz \in ANGLES, ry \in ANGLES, rx \in ANGLES}

PAIRED ==
    {<<SAMPLE_SOLID, <<0, 0, 0>>, <<90, 0, 90>> >>,
     <<SAMPLE_SOLID, <<Mm(1), Mm(-2), Mm(3)>>, <<0, 180, -90>> >>,
     <<SAMPLE_SOLID, <<Mm(1), Mm(-2), Mm(3)>>, <<0, 0, 0>> >>}

PLACEMENT_LISTS ==
    {<<pl>> : pl \in PLACEMENTS}
    \cup {<<p, q>> : p \in PAIRED, q \in PAIRED}
    \cup {make_assembly(a, Umm(1600), Mm(10), 1, b) : a \in A_FEW, b \in B_FEW}

\* the assembly branch of main's export step run on a placement list
RealizeInMain ==
    /\ \E model \in PLACEMENT_LISTS :
        /\ call' = [fn |-> "main", model |-> model]
        /\ result' = [status |-> "ok", value |-> MovedVals(model)]
    /\ UNCHANGED <<DEFAULTS, profile, earlier, app_vars>>

\* the assembly branch of MainWindow.export_model run on a placement list
RealizeInExportModel ==
    /\ \E model \in PLACEMENT_LISTS :
        /\ call' = [fn |-> "export_model", model |-> model]
        /\ result' = [status |-> "ok", value |-> export_moved_vals(model)]
    /\ UNCHANGED <<DEFAULTS, profile, earlier, app_vars>>

\* MainWindow._compute_bounding_box run on a placement list
RealizeInBoundingBox ==
    /\ \E model \in PLACEMENT_LISTS :
        /\ call' = [fn |-> "_compute_bounding_box", model |-> model]
        /\ result' = [status |-> "ok", value |-> bounding_box_solids(model),
                      size |-> _compute_bounding_box(model, TRUE)]
    /\ UNCHANGED <<DEFAULTS, profile, earlier, app_vars>>

\* VTKViewer._combine_assembly run on a placement list
RealizeInCombineAssembly ==
    /\ \E model \in PLACEMENT_LISTS :
        /\ call' = [fn |-> "_combine_assembly", model |-> model]
        /\ result' = [status |-> "ok", value |-> _combine_assembly(model).solids]
    /\ UNCHANGED <<DEFAULTS, profile, earlier, app_vars>>

NextRealize ==
    \/ RealizeInMain
    \/ RealizeInExportModel
    \/ RealizeInBoundingBox
    \/ RealizeInCombineAssembly

SpecRealize == Init /\ [][NextRealize]_vars

---------------------------------------------------------------------------
(* ui/main_window.py and ui/viewer.py: the GUI.  Each handler runs to its  *)
(* end before the next event; the constructor's two rebuilds are steps of  *)
(* their own (gui.phase says which comes next).                            *)

\* values a spin box is set to by the user, besides its initial value
GUI_VALUES ==
    [a |-> {Mm(90)}, b |-> {Mm(120), Mm(12)}, c |-> {Umm(1600)},
     d |-> {Mm(10)}, n |-> {10}]

\* the spin boxes on_component_changed enables for a view
EnabledSpins(name) ==
    (IF name = "frame" \/ name = "assembly" THEN {"a", "c", "d", "n"} ELSE {})
    \cup (IF name = "bone" \/ name = "assembly" THEN {"b"} ELSE {})

\* paths the file dialog returns (absolute); "" when it is cancelled
GUI_OUT_PATHS == {[abs |-> TRUE, parts |-> <<"home", "user", "model.step">>]}

Cancelled == [abs |-> FALSE, parts |-> <<>>]

\* where a handler can fail: in the kernel while the model is built, while
\* the viewer writes and reads its preview mesh, or while the size is measured
HandlerRaises(component) == RaisesOf(component) \cup {"show", "bbox"}

\* the failure, if any, that falls into build_model
InBuild(raises) == IF raises \in {"frame", "bone"} THEN raises ELSE "none"

\* MainWindow.build_model
build_model(g, raises) ==
    IF g.component = "frame"
    THEN Outcome(raises, make_frame(g.a, g.c, g.d, g.n))
    ELSE IF g.component = "bone"
    THEN Outcome(raises, make_bone([b |-> g.b]))
    ELSE Outcome(raises, make_assembly(g.a, g.c, g.d, g.n, g.b))

\* VTKViewer.show: the plotter is cleared and shows the mesh of the object
show(obj, is_list) ==
    [shown |-> TRUE, mesh |-> IF is_list THEN _combine_assembly(obj) ELSE obj]

\* f"{v:.2f}" of a length: the number of hundredths of a millimetre it
\* prints, rounded
fmt2(v) == (v * 100 + UNIT \div 2) \div UNIT

\* MainWindow._update_size_label: the new text of size_value
_update_size_label(model, is_list, raises) ==
    IF raises = "bbox" THEN NoSize
    ELSE LET xyz == _compute_bounding_box(model, is_list)
         IN  [measured |-> TRUE,
              text |-> <<fmt2(xyz[1]), fmt2(xyz[2]), fmt2(xyz[3])>>]

critical(title) == [kind |-> "critical", title |-> title]

information(title, path) ==
    [kind |-> "information", title |-> title, path |-> path]

\* mutation: the except clause swallows the exception (pass)
update_preview_unreported(g, model, raises) ==
    LET is_list == g.component = "assembly"
    IN  IF model.status = "raised" \/ raises = "show"
        THEN [model |-> model, viewer |-> viewer, size_value |-> size_value,
              dialog |-> NoDialog]
        ELSE [model |-> model,
              viewer |-> show(model.value, is_list),
              size_value |-> _update_size_label(model.value, is_list, raises),
              dialog |-> NoDialog]

\* MainWindow.update_preview, with model what build_model returned or
\* raised: the viewer, the size label and the message box afterwards
update_preview(g, model, raises) ==
    LET is_list == g.component = "assembly"
    IN  IF model.status = "raised" \/ raises = "show"
        THEN [model |-> model, viewer |-> viewer, size_value |-> size_value,
              dialog |-> critical("Model build error")]
        ELSE [model |-> model,
              viewer |-> show(model.value, is_list),
              size_value |-> _update_size_label(model.value, is_list, raises),
              dialog |-> NoDialog]

\* MainWindow.export_model, with model what build_model returned or
\* raised: the files and the message box afterwards
export_model(g, model, out) ==
        IF model.status = "raised"
        THEN [model |-> model, fs |-> fs, dialog |-> critical("Export error")]
        ELSE IF out = Cancelled
        THEN [model |-> model, fs |-> fs, dialog |-> NoDialog]
        ELSE LET r == IF g.component = "assembly"
                      THEN export_shape(makeCompound(export_moved_vals(model.value)),
                                        out, g.fmt)
                      ELSE export_shape(model.value, out, g.fmt)
             IN  IF r.status = "ok"
                 THEN [model |-> model, fs |-> r.fs,
                       dialog |-> information("Export complete", r.value)]
                 ELSE [model |-> model, fs |-> r.fs,
                       dialog |-> critical("Export error")]

\* DEFAULTS after a build of the view: make_bone runs unless the view is
\* the frame or the frame already failed
DefaultsAfterBuild(g, raises) ==
    IF g.component = "frame" \/ raises = "frame" THEN DEFAULTS
    ELSE DEFAULTS_after([b |-> g.b])

\* a rebuild of the preview with the widgets as in g
Rebuild(g, via) ==
    \E raises \in HandlerRaises(g.component) :
      \E model \in {build_model(g, InBuild(raises))} :
        \E r \in {update_preview(g, model, raises)} :
            /\ call' = [fn |-> "update_preview", via |-> via, raises |-> raises]
            /\ result' = r.model
            /\ viewer' = r.viewer
            /\ size_value' = r.size_value
            /\ dialog' = r.dialog
            /\ DEFAULTS' = DefaultsAfterBuild(g, raises)
            /\ UNCHANGED <<profile, earlier, fs>>

\* MainWindow.__init__ up to the viewer: the widgets with their initial
\* values; no handler has run yet
RunGui ==
    /\ ~gui.running
    /\ gui' = [running |-> TRUE, phase |-> "setCurrentText",
               component |-> "frame",
               a |-> Mm(90), b |-> Mm(120), c |-> Umm(1600), d |-> Mm(10),
               n |-> 10, fmt |-> <<"s", "t", "e", "p">>]
    /\ call' = [fn |-> "__init__"]
    /\ result' = NoResult
    /\ viewer' = EmptyScene
    /\ size_value' = NoSize
    /\ dialog' = NoDialog
    /\ UNCHANGED <<DEFAULTS, profile, earlier, fs>>

\* MainWindow.__init__: component_combo.setCurrentText("assembly"), which
\* runs on_component_changed
InitSetCurrentText ==
    /\ gui.running /\ gui.phase = "setCurrentText"
    /\ \E g \in {[gui EXCEPT !.component = "assembly",
                                 !.phase = "update_preview"]} :
        gui' = g /\ Rebuild(g, "on_component_changed")

\* MainWindow.__init__: the closing self.update_preview()
InitUpdatePreview ==
    /\ gui.running /\ gui.phase = "update_preview"
    /\ \E g \in {[gui EXCEPT !.phase = "events"]} :
        gui' = g /\ Rebuild(g, "__init__")

\* valueChanged of an enabled spin box
SpinValueChanged ==
    /\ gui.running /\ gui.phase = "events"
    /\ \E spin \in EnabledSpins(gui.component) :
        \E v \in GUI_VALUES[spin] \ {gui[spin]} :
            \E g \in {[gui EXCEPT ![spin] = v]} :
                gui' = g /\ Rebuild(g, "valueChanged")

\* currentTextChanged of the view combo: on_component_changed
ComponentChanged ==
    /\ gui.running /\ gui.phase = "events"
    /\ \E name \in COMPONENTS \ {gui.component} :
        \E g \in {[gui EXCEPT !.component = name]} :
            gui' = g /\ Rebuild(g, "on_component_changed")

\* another format is picked in fmt_combo; no handler is connected
SelectFormat ==
    /\ gui.running /\ gui.phase = "events"
    /\ \E fmt \in CLI_FMT_CHOICES \ {gui.fmt} :
        gui' = [gui EXCEPT !.fmt = fmt]
    /\ call' = [fn |-> "fmt_combo"]
    /\ result' = NoResult
    /\ dialog' = NoDialog
    /\ UNCHANGED <<DEFAULTS, profile, earlier, fs, viewer, size_value>>

\* clicked of the Export button
ExportModel ==
    /\ gui.running /\ gui.phase = "events"
    /\ \E raises \in RaisesOf(gui.component),
          out \in GUI_OUT_PATHS \cup {Cancelled} :
      \E model \in {build_model(gui, raises)} :
        \E r \in {export_model(gui, model, out)} :
            /\ call' = [fn |-> "export_model", raises |-> raises, out |-> out]
            /\ result' = r.model
            /\ fs' = r.fs
            /\ dialog' = r.dialog
            /\ DEFAULTS' = DefaultsAfterBuild(gui, raises)
    /\ UNCHANGED <<profile, earlier, gui, viewer, size_value>>

NextGui ==
    \/ RunGui
    \/ InitSetCurrentText
    \/ InitUpdatePreview
    \/ SpinValueChanged
    \/ ComponentChanged
    \/ SelectFormat
    \/ ExportModel

SpecGui == Init /\ [][NextGui]_vars

---------------------------------------------------------------------------
(* What a finished call returned *)

FrameReturned == call.fn = "make_frame" /\ result.status = "ok"

BoneReturned == call.fn = "make_bone" /\ result.status = "ok"

AssemblyReturned == call.fn = "make_assembly" /\ result.status = "ok"

\* every frame solid the finished call built: the frame make_frame returned,
\* or the two frames make_assembly placed
BuiltFrames ==
    IF FrameReturned THEN {result.value}
    ELSE IF AssemblyReturned THEN {result.value[1][1], result.value[2][1]}
    ELSE {}

---------------------------------------------------------------------------
(* C1 *)

\* C1: for every (a, c, d, n) the frame's window is
\* inner_x = a + LEN_EXTRA by inner_y = n*c + (n+1)*d and its plate is
\* outer_x = inner_x + 2*FRAME_WALL_X by
\* outer_y = inner_y + 2*(FRAME_WALL_Y + TOP_BOTTOM_MARGIN);
\* a=90, c=1.6, d=10, n=10 gives 95 x 126 and 109 x 150.
C1_DerivedDimensions ==
    \A f \in BuiltFrames :
        /\ f.window.y = call.n * call.c + (call.n + 1) * call.d
        /\ f.window.x = call.a + LEN_EXTRA
        /\ f.plate.x = f.window.x + 2 * FRAME_WALL_X
        /\ f.plate.y = f.window.y + 2 * (FRAME_WALL_Y + TOP_BOTTOM_MARGIN)
        /\ f.bbox.xhi - f.bbox.xlo = f.plate.x
        /\ f.bbox.yhi - f.bbox.ylo = f.plate.y
        /\ (call.a = Mm(90) /\ call.c = Umm(1600) /\ call.d = Mm(10) /\ call.n = 10)
             => /\ f.window.y = Mm(126)
                /\ f.window.x = Mm(95)
                /\ f.plate.x = Mm(109)
                /\ f.plate.y = Mm(150)

C1_Witness ==
    /\ FrameReturned
    /\ call.a = Mm(90) /\ call.c = Umm(1600) /\ call.d = Mm(10) /\ call.n = 10
    /\ result.value.window.y = Mm(126)
    /\ result.value.plate.y = Mm(150)

---------------------------------------------------------------------------
(* C2 *)

\* the Y boundaries met going up a rail: the rail's lower end, then each
\* slot's lower and upper edge in slot order, then the rail's upper end
RailBoundaries(rail, cuts) ==
    <<rail.ylo>>
    \o [j \in 1 .. 2 * Len(cuts) |->
          IF j % 2 = 1 THEN cuts[(j + 1) \div 2].ylo ELSE cuts[j \div 2].yhi]
    \o <<rail.yhi>>

\* the widths between consecutive boundaries are d, c, d, c, ..., c, d
Alternates(bs, c, d) ==
    \A j \in 1 .. Len(bs) - 1 :
        bs[j + 1] - bs[j] = (IF j % 2 = 1 THEN d ELSE c)

\* C2: on each rail the n slot cuts, slot i centred at
\* (-inner_y/2 + d) + (i+0.5)*c + i*d with width c, split the rail's extent
\* [-inner_y/2, +inner_y/2] into nose, slot, nose, ..., slot, nose: n disjoint
\* slots of width c and n+1 noses of width d, the first nose starting at
\* -inner_y/2, the last ending at +inner_y/2, no slot outside the rail.
C2_SlotsPartitionRail ==
    \A f \in BuiltFrames :
        LET n == call.n
            c == call.c
            d == call.d
            inner_y == f.window.y
            left  == [k \in 1 .. Len(f.slots) |-> f.slots[k].cut_left]
            right == [k \in 1 .. Len(f.slots) |-> f.slots[k].cut_right]
            side(rail, cuts) ==
                LET bs == RailBoundaries(rail, cuts)
                IN  /\ rail.ylo = -Half(inner_y)
                    /\ rail.yhi = Half(inner_y)
                    /\ Len(bs) = 2 * n + 2
                    /\ Alternates(bs, c, d)
                    /\ \A k \in 1 .. n :
                         /\ cuts[k].yhi - cuts[k].ylo = c
                         /\ 2 * (cuts[k].ylo + cuts[k].yhi)
                              = 4 * (d - Half(inner_y))
                                + (2 * (k - 1) + 1) * 2 * c + 4 * (k - 1) * d
                         /\ rail.ylo <= cuts[k].ylo
                         /\ cuts[k].yhi <= rail.yhi
                         /\ cuts[k].xlo = rail.xlo /\ cuts[k].xhi = rail.xhi
                         /\ cuts[k].zlo <= rail.zlo /\ cuts[k].zhi >= rail.zhi
                    /\ \A k, m \in 1 .. n :
                         k < m => cuts[k].yhi <= cuts[m].ylo
        IN  /\ Len(f.slots) = n
            /\ Len(f.rails) = 2
            /\ side(f.rails[1], left)
            /\ side(f.rails[2], right)

C2_Witness ==
    /\ FrameReturned
    /\ call.n = 3 /\ call.c = Umm(1605) /\ call.d = Cmm(255)
    /\ Len(result.value.slots) = 3
    /\ result.value.slots[1].cut_left.ylo - result.value.rails[1].ylo = Cmm(255)
    /\ result.value.rails[1].yhi - result.value.slots[3].cut_left.yhi = Cmm(255)

---------------------------------------------------------------------------
(* C3 *)

\* C3: whenever make_assembly returns, it returns exactly 6 placements in
\* the order frame-bottom, frame-top, 4 bones; both frame placements carry
\* translation (0,0,0) and all 6 carry rotation (0,0,0).
C3_SixPlacementsInOrder ==
    AssemblyReturned =>
        LET pl == result.value
        IN  /\ Len(pl) = 6
            /\ \A k \in 1 .. Len(pl) : Len(pl[k]) = 3 /\ pl[k][3] = <<0, 0, 0>>
            /\ pl[1][1].kind = "frame" /\ ~pl[1][1].mirrored
            /\ pl[1][1].bbox.zlo = 0
            /\ pl[2][1].kind = "frame" /\ pl[2][1].mirrored
            /\ pl[2][1].bbox.zhi = call.b
            /\ pl[1][2] = <<0, 0, 0>>
            /\ pl[2][2] = <<0, 0, 0>>
            /\ \A k \in 3 .. 6 : pl[k][1].kind = "bone"

C3_Witness ==
    /\ AssemblyReturned
    /\ call.b = Mm(120)
    /\ Len(result.value) = 6
    /\ result.value[2][1].mirrored
    /\ result.value[6][1].kind = "bone"

---------------------------------------------------------------------------
(* C4 *)

\* the Z interval of a solid
ZOf(solid) == <<solid.bbox.zlo, solid.bbox.zhi>>

\* C4: with every placement realized (rotation, then translation) the
\* bottom frame occupies Z in [0, PLATE_T], the mirrored top frame
\* Z in [b - PLATE_T, b], and for a valid b (the two plates do not pass
\* each other: b >= PLATE_T) the assembly's bounding box has the Z extent
\* [0, b], so its Z span is b; b=120 puts the frames at 0..8 and 112..120.
C4_AssemblySpansB ==
    AssemblyReturned =>
        LET moved == MovedVals(result.value)
            bb == CompoundBox([k \in DOMAIN moved |-> moved[k].bbox])
            b == call.b
        IN  /\ ZOf(moved[1]) = <<0, PLATE_T>>
            /\ ~moved[1].mirrored
            /\ ZOf(moved[2]) = <<b - PLATE_T, b>>
            /\ moved[2].mirrored
            /\ b >= PLATE_T => /\ bb.zlo = 0
                               /\ bb.zhi = b
                               /\ bb.zhi - bb.zlo = b
            /\ b = Mm(120) => /\ ZOf(moved[1]) = <<0, Mm(8)>>
                              /\ ZOf(moved[2]) = <<Mm(112), Mm(120)>>

C4_Witness ==
    /\ AssemblyReturned
    /\ call.b = Mm(16)
    /\ ZOf(Realize(result.value[2])) = <<Mm(8), Mm(16)>>
    /\ CompoundBox([k \in 1 .. 6 |-> Realize(result.value[k]).bbox]).zhi = Mm(16)

---------------------------------------------------------------------------
(* C5 *)

\* C5: for every b > 0 each of the four bones of make_assembly, realized,
\* spans exactly Z in [0, b], the dovetail clamp having triggered or not.
C5_BonesSpanZeroToB ==
    /\ (call.fn = "make_assembly" /\ profile # NoProfile) =>
           /\ SeqMin([i \in 1 .. 13 |-> profile.pts[i][2]]) = -Half(call.b)
           /\ SeqMax([i \in 1 .. 13 |-> profile.pts[i][2]]) = Half(call.b)
    /\ AssemblyReturned =>
           \A k \in 3 .. 6 : ZOf(Realize(result.value[k])) = <<0, call.b>>

---------------------------------------------------------------------------
(* C6 *)

\* C6: for the corners (+,+), (-,+), (-,-), (+,-) of the bottom frame's
\* bounding box, in this order, the bone's translation is (x_in, y_in, b/2):
\* x pulled BONE_X_INSET (11 mm) towards the centre, y raised by the bone
\* thickness at the two negative-Y corners and left alone at the two
\* positive-Y corners.
C6_BoneCornerTranslations ==
    AssemblyReturned =>
        LET pl == result.value
            f_bb == pl[1][1].bbox
            hx == Half(f_bb.xhi - f_bb.xlo)
            hy == Half(f_bb.yhi - f_bb.ylo)
            t == DEFAULTS.thickness
            zc == Half(call.b)
        IN  /\ hx = f_bb.xhi /\ hy = f_bb.yhi
            /\ hx > Mm(11) /\ hy > Mm(5)
            /\ t = Mm(5)
            /\ pl[3][2] = <<hx - Mm(11), hy, zc>>
            /\ pl[4][2] = <<-hx + Mm(11), hy, zc>>
            /\ pl[5][2] = <<-hx + Mm(11), -hy + t, zc>>
            /\ pl[6][2] = <<hx - Mm(11), -hy + t, zc>>
            /\ \A k \in 3 .. 6 : pl[k][1] = pl[3][1]

C6_Witness ==
    /\ AssemblyReturned
    /\ call.a = Mm(90) /\ call.c = Umm(1600) /\ call.d = Mm(10) /\ call.n = 10
    /\ call.b = Mm(120)
    /\ result.value[5][2] = <<-Cmm(4350), -Mm(70), Mm(60)>>
    /\ result.value[3][2] = <<Cmm(4350), Mm(75), Mm(60)>>

---------------------------------------------------------------------------
(* C7 *)

\* a make_bone run has computed its outline: make_bone itself, or the
\* make_bone(b=b) inside make_assembly
ProfileComputed ==
    \/ call.fn = "make_bone"
    \/ call.fn = "make_assembly" /\ profile # NoProfile

\* the keyword arguments of that run
BoneParams == IF call.fn = "make_bone" THEN call.params ELSE [b |-> call.b]

\* the l_dovetail and b it was given: the override, else the default
SuppliedL ==
    IF "l_dovetail" \in DOMAIN BoneParams THEN BoneParams.l_dovetail ELSE Mm(8)

SuppliedB == IF "b" \in DOMAIN BoneParams THEN BoneParams.b ELSE Mm(80)

\* C7: the dovetail length used is the supplied one when 0 < l < b/2 and
\* max(0.1, min(0.45*(b/2), l)) when l <= 0 or l >= b/2; no error is raised
\* for it (only a kernel failure makes the call raise).  b=80, l=8 gives
\* y_outer=40, y_inner=32 unclamped; b=5, l=8 gives l=1.125.
C7_ClampPolicy ==
    ProfileComputed =>
        LET l == SuppliedL
            half == Half(SuppliedB)
            used == profile.L_DOVETAIL
        IN  /\ (0 < l /\ l < half) => used = l
            /\ (l <= 0 \/ l >= half) =>
                  /\ (9 * half) % 20 = 0    \* 0.45*(b/2) is on the grid
                  /\ used = Max(Cmm(10), Min((9 * half) \div 20, l))
            /\ profile.Y_OUTER = half
            /\ profile.Y_INNER = half - used
            /\ call.raises = "none" => result.status = "ok"
            /\ result.status = "raised" => result.error = "kernel"
            /\ (SuppliedB = Mm(80) /\ l = Mm(8)) =>
                  /\ used = Mm(8)
                  /\ profile.Y_OUTER = Mm(40)
                  /\ profile.Y_INNER = Mm(32)
            /\ (SuppliedB = Mm(5) /\ l = Mm(8)) => used = Umm(1125)

C7_Witness ==
    /\ BoneReturned
    /\ "b" \in DOMAIN call.params /\ call.params.b = Mm(5)
    /\ "l_dovetail" \notin DOMAIN call.params
    /\ profile.L_DOVETAIL = Umm(1125)

---------------------------------------------------------------------------
(* C8 *)

\* C8: for every b > 0 and every l_dovetail, after the clamp
\* 0 < l_dovetail < b/2, hence 0 < y_inner < y_outer = b/2 in the outline.
C8_ShoulderInsideTip ==
    ProfileComputed =>
        /\ 0 < profile.L_DOVETAIL
        /\ profile.L_DOVETAIL < Half(SuppliedB)
        /\ 0 < profile.Y_INNER
        /\ profile.Y_INNER < profile.Y_OUTER
        /\ profile.Y_OUTER = Half(SuppliedB)
        /\ profile.pts[3][2] = profile.Y_INNER
        /\ profile.pts[2][2] = profile.Y_OUTER

---------------------------------------------------------------------------
(* C9 *)

PointSet(pts) == {pts[i] : i \in DOMAIN pts}

\* C9: for any (b, x_out, x_mid, x_in, l_dovetail) the outline P1..P13 is
\* closed (P13 = P1) and symmetric under x -> -x and under y -> -y (with
\* every point its mirror image is a point of the outline), so the extruded
\* bone is centred on the origin in X and Y.
C9_ProfileSymmetric ==
    ProfileComputed =>
        LET pts == profile.pts
        IN  /\ Len(pts) = 13
            /\ pts[13] = pts[1]
            /\ \A i \in 1 .. 13 : <<-pts[i][1], pts[i][2]>> \in PointSet(pts)
            /\ \A i \in 1 .. 13 : <<pts[i][1], -pts[i][2]>> \in PointSet(pts)
            /\ BoneReturned =>
                  /\ result.value.pts = pts
                  /\ result.value.bbox.xlo = -result.value.bbox.xhi
                  /\ result.value.bbox.ylo = -result.value.bbox.yhi

C9_Witness ==
    /\ BoneReturned
    /\ DOMAIN call.params = {"b", "l_dovetail", "x_out", "x_mid", "x_in"}
    /\ call.params.x_in = Mm(-2)
    /\ call.params.l_dovetail = Mm(8)
    /\ call.params.b = Mm(120)
    /\ profile.pts[12] = <<Mm(-2), Mm(52)>>
    /\ profile.pts[3] = <<Mm(2), Mm(52)>>

---------------------------------------------------------------------------
(* C10 *)

\* a wedge mirrored in X
MirrorXWedge(w) ==
    [tri |-> [i \in DOMAIN w.tri |-> <<-w.tri[i][1], w.tri[i][2]>>],
     ylo |-> w.ylo,
     yhi |-> w.yhi]

\* C10: the frame's features are placed mirrored about both axes: the two
\* rails and their slot cuts sit at X centres -+(inner_x/2 - NOSE_DEPTH/2);
\* the slot centres satisfy y_center_i = -y_center_(n-1-i); the connector
\* centres are (+-x, +-y) for one x and one y; each connector's two wedges
\* are the X mirror images of those of the connector at the opposite X.
C10_FrameFeaturesMirrored ==
    \A f \in BuiltFrames :
        LET n == Len(f.slots)
            xr == Half(f.window.x) - Half(NOSE_DEPTH)
            xc(bb) == Half(bb.xlo + bb.xhi)
            x == f.centers[2][1]
            y == f.centers[2][2]
            opposite(k) == IF k % 2 = 1 THEN k + 1 ELSE k - 1
        IN  /\ n = call.n
            /\ xc(f.rails[1]) = -xr /\ xc(f.rails[2]) = xr
            /\ f.rails[1].xhi - f.rails[1].xlo = NOSE_DEPTH
            /\ f.rails[2].xhi - f.rails[2].xlo = NOSE_DEPTH
            /\ f.rails[1].ylo = -f.rails[1].yhi
            /\ f.rails[2].ylo = -f.rails[2].yhi
            /\ \A k \in 1 .. n :
                 /\ xc(f.slots[k].cut_left) = -xr
                 /\ xc(f.slots[k].cut_right) = xr
                 /\ Half(f.slots[k].cut_left.ylo + f.slots[k].cut_left.yhi)
                      = f.slots[k].y_center
                 /\ Half(f.slots[k].cut_right.ylo + f.slots[k].cut_right.yhi)
                      = f.slots[k].y_center
                 /\ f.slots[k].y_center = -f.slots[n + 1 - k].y_center
            /\ f.centers = << <<-x, y>>, <<x, y>>, <<-x, -y>>, <<x, -y>> >>
            /\ \A k \in 1 .. 4 :
                 /\ f.centers[opposite(k)]
                      = <<-f.centers[k][1], f.centers[k][2]>>
                 /\ MirrorXWedge(f.wedges[k].wl) = f.wedges[opposite(k)].wr
                 /\ MirrorXWedge(f.wedges[k].wr) = f.wedges[opposite(k)].wl

C10_Witness ==
    /\ FrameReturned
    /\ call.n = 4 /\ call.a = Cmm(12345)
    /\ result.value.slots[1].y_center = -result.value.slots[4].y_center
    /\ result.value.slots[1].y_center < 0
    /\ result.value.centers[1][1] = -result.value.centers[2][1]
    /\ result.value.centers[2][1] > 0
    /\ result.value.wedges[1].wl.tri[2][1] = -result.value.wedges[2].wr.tri[2][1]

---------------------------------------------------------------------------
(* C15 *)

\* C15 as stated: for every b > PLATE_T the bottom frame's Z interval
\* [0, PLATE_T] lies at or below the top frame's Z interval [b - PLATE_T, b].
C15_FramesApartAbovePlateT ==
    (AssemblyReturned /\ call.b > PLATE_T) =>
        LET moved == MovedVals(result.value)
        IN  /\ ZOf(moved[1]) = <<0, PLATE_T>>
            /\ ZOf(moved[2]) = <<call.b - PLATE_T, call.b>>
            /\ moved[1].bbox.zhi <= moved[2].bbox.zlo

\* C15 amended: for every b >= 2*PLATE_T the bottom frame's Z interval
\* [0, PLATE_T] lies at or below the top frame's Z interval [b - PLATE_T, b]
\* (they share at most a boundary plane); for PLATE_T < b < 2*PLATE_T the
\* two intervals overlap in (b - PLATE_T, PLATE_T).
C15_FramesApartFromTwoPlates ==
    AssemblyReturned =>
        LET moved == MovedVals(result.value)
            lo == moved[1].bbox
            hi == moved[2].bbox
        IN  /\ call.b >= 2 * PLATE_T =>
                  /\ ZOf(moved[1]) = <<0, PLATE_T>>
                  /\ ZOf(moved[2]) = <<call.b - PLATE_T, call.b>>
                  /\ lo.zhi <= hi.zlo
            /\ (PLATE_T < call.b /\ call.b < 2 * PLATE_T) =>
                  /\ hi.zlo < lo.zhi
                  /\ lo.zlo < hi.zhi

C15_Witness ==
    /\ AssemblyReturned
    /\ call.b = Mm(16)
    /\ Realize(result.value[1]).bbox.zhi = Mm(8)
    /\ Realize(result.value[2]).bbox.zlo = Mm(8)

---------------------------------------------------------------------------
(* C16 *)

\* the ranges of the GUI's spin boxes
GUI_A_RANGE == <<Mm(10), Mm(10000)>>

GUI_B_RANGE == <<Mm(1), Mm(1000)>>

GUI_C_RANGE == <<Cmm(10), Mm(50)>>

GUI_D_RANGE == <<Cmm(10), Mm(100)>>

GUI_N_RANGE == <<1, 200>>

Within(v, range) == range[1] <= v /\ v <= range[2]

\* the parameters of the call are ones the GUI accepts
GuiAccepts ==
    /\ Within(call.a, GUI_A_RANGE)
    /\ Within(call.b, GUI_B_RANGE)
    /\ Within(call.c, GUI_C_RANGE)
    /\ Within(call.d, GUI_D_RANGE)
    /\ Within(call.n, GUI_N_RANGE)

\* box p lies inside box q in X and Y
InsideXY(p, q) ==
    /\ q.xlo <= p.xlo /\ p.xhi <= q.xhi
    /\ q.ylo <= p.ylo /\ p.yhi <= q.yhi

\* boxes p and q share area in XY
OverlapXY(p, q) ==
    /\ p.xlo < q.xhi /\ q.xlo < p.xhi
    /\ p.ylo < q.yhi /\ q.ylo < p.yhi

\* C16: for every parameter set the GUI accepts the four bones placed by
\* make_assembly (default profile: half-width 7, thickness 5; a placed bone
\* occupies Y in [y_in - thickness, y_in], X in [x_in - x_out, x_in + x_out])
\* each lie inside the bottom frame's XY bounding box and are pairwise
\* non-overlapping in XY.
C16_BonesInsideAndApart ==
    (AssemblyReturned /\ GuiAccepts) =>
        LET pl == result.value
            frame == Realize(pl[1]).bbox
            bone(k) == Realize(pl[k]).bbox
        IN  /\ \A k \in 3 .. 6 :
                 /\ bone(k).xlo = pl[k][2][1] - Mm(7)
                 /\ bone(k).xhi = pl[k][2][1] + Mm(7)
                 /\ bone(k).ylo = pl[k][2][2] - Mm(5)
                 /\ bone(k).yhi = pl[k][2][2]
                 /\ InsideXY(bone(k), frame)
            /\ \A k, m \in 3 .. 6 : k # m => ~OverlapXY(bone(k), bone(m))

---------------------------------------------------------------------------
(* C11 *)

\* the current call repeats the request of the kept earlier call
Repeated == call # NoCall /\ Request(call) = Request(earlier.call)

\* C11: no builder retains state across calls: two calls of the same
\* builder with identical parameters yield identical results (derived
\* dimensions, profile points, slot centres, placement list) whatever calls
\* with other parameters happen in between; make_bone with overrides never
\* modifies the module-level DEFAULTS.
C11_NoStateAcrossCalls ==
    /\ DEFAULTS = DEFAULTS0
    /\ Repeated =>
          /\ (result.status = "ok" /\ earlier.result.status = "ok") =>
                result.value = earlier.result.value
          /\ (profile # NoProfile /\ earlier.profile # NoProfile) =>
                profile = earlier.profile
          /\ call.raises = earlier.call.raises =>
                result = earlier.result /\ profile = earlier.profile

C11_Witness ==
    /\ Repeated
    /\ earlier.between
    /\ call.fn = "make_bone"
    /\ call.params = <<>>
    /\ result.status = "ok"
    /\ earlier.result.status = "ok"
    /\ result.value.pts = earlier.result.value.pts
    /\ DEFAULTS = DEFAULTS0

---------------------------------------------------------------------------
(* C13 *)

\* the spellings of the three accepted format names among the strings drawn
StlSpellings == {<<"s", "t", "l">>, <<"S", "T", "L">>, <<"S", "t", "l">>}

StepSpellings ==
    {<<"s", "t", "e", "p">>, <<"S", "T", "E", "P">>, <<"S", "t", "e", "p">>,
     <<"s", "t", "p">>, <<"S", "T", "P">>}

\* the model file that a successful export left at the returned path
FileAt(files, path) == {f \in files : f.path = path.parts}

\* C13: export_shape accepts exactly the formats 'stl', 'step' and 'stp',
\* compared case-insensitively, and then returns the absolute path of the
\* written file; for any other format string it fails with ValueError,
\* writes no model file and keeps nothing of the shape.
C13_ExportFormats ==
    [][call'.fn = "export_shape" =>
          LET fmt == call'.fmt
              want == IF fmt \in StlSpellings THEN "STL" ELSE "STEP"
          IN  IF fmt \in StlSpellings \cup StepSpellings
              THEN /\ result'.status = "ok"
                   /\ result'.value.abs
                   /\ result'.value.parts =
                          IF call'.out_path.abs THEN call'.out_path.parts
                          ELSE CWD \o call'.out_path.parts
                   /\ \E f \in FileAt(fs'.files, result'.value) :
                          /\ f.type = want
                          /\ f.kind = call'.shape
                          /\ FileAt(fs'.files, result'.value) = {f}
                   /\ \A f \in fs'.files :
                          f.path # result'.value.parts => f \in fs.files
              ELSE /\ result' = [status |-> "raised", error |-> "ValueError"]
                   /\ fs'.files = fs.files
                   /\ UNCHANGED <<viewer, size_value, gui>>
    ]_vars

C13_Witness ==
    /\ call.fn = "export_shape"
    /\ call.fmt = <<"S", "T", "P">>
    /\ ~call.out_path.abs
    /\ result.status = "ok"
    /\ result.value.parts = <<"home", "user", "out", "model.stl">>
    /\ \E f \in fs.files : f.path = result.value.parts /\ f.type = "STEP"
    /\ \E f \in fs.files : f.path # result.value.parts

---------------------------------------------------------------------------
(* C14 *)

\* a placement turned about Z, then Y, then X, and then moved
TurnedZYXThenMoved(pl) ==
    LET bz == RotateBox(pl[1].bbox, "Z", pl[3][1])
        by == RotateBox(bz, "Y", pl[3][2])
        bx == RotateBox(by, "X", pl[3][3])
    IN  [pl[1] EXCEPT !.bbox = TranslateBox(bx, pl[2][1], pl[2][2], pl[2][3])]

\* one of the four loops has just run on the placement list call.model
Realized == "model" \in DOMAIN call

\* C14: every realization of a placement list applies, per placement and in
\* list order, the rotations about Z, then Y, then X and only then the
\* translation, leaving the list and its solids as they were (the four bone
\* placements of an assembly keep sharing one bone solid); the four copies
\* of the loop (main, MainWindow.export_model,
\* MainWindow._compute_bounding_box, VTKViewer._combine_assembly) produce
\* the same transformed parts in the same order.
C14_RealizationsAgree ==
    Realized =>
        LET model == call.model
            expected == [k \in DOMAIN model |-> TurnedZYXThenMoved(model[k])]
        IN  /\ result.value = expected
            /\ Len(result.value) = Len(model)
            /\ MovedVals(model) = expected
            /\ export_moved_vals(model) = expected
            /\ bounding_box_solids(model) = expected
            /\ _combine_assembly(model).solids = expected
            /\ Len(model) = 6 =>
                  /\ \A k \in 4 .. 6 : model[k][1] = model[3][1]
                  /\ model \in {make_assembly(a, Umm(1600), Mm(10), 1, b) :
                                   a \in A_FEW, b \in B_FEW}

C14_Witness ==
    /\ Realized
    /\ call.fn = "_combine_assembly"
    /\ Len(call.model) = 2
    /\ call.model[1][3] = <<90, 0, 90>>
    /\ call.model[2][3] = <<0, 180, -90>>
    /\ result.value[1].bbox # translate(rotate(rotate(SAMPLE_SOLID, "X", 90),
                                               "Z", 90), <<0, 0, 0>>).bbox
    /\ result.value[1].bbox =
           [xlo |-> Mm(-5), xhi |-> Mm(-1), ylo |-> Mm(-8), yhi |-> Mm(-2),
            zlo |-> Mm(1), zhi |-> Mm(3)]

---------------------------------------------------------------------------
(* C12 *)

\* the kinds of the parts of a complete assembly, in order
AssemblyKinds == <<"frame", "frame", "bone", "bone", "bone", "bone">>

\* a mesh on show, or a shape in a file, is a single part or a whole assembly
WholeMesh(mesh) ==
    mesh.kind = "compound" =>
        [k \in DOMAIN mesh.solids |-> mesh.solids[k].kind] = AssemblyKinds

\* C12: a build is atomic and its failure is surfaced at once, without
\* retry: make_assembly returns the complete 6-placement list or raises;
\* when the rebuild of update_preview fails an error is reported and the
\* viewer and the size readout are handed nothing; when the build of
\* export_model fails nothing is exported.
C12_BuildIsAtomic ==
    [][/\ call'.fn \in {"update_preview", "export_model"} =>
            /\ result'.status = IF call'.raises \in {"frame", "bone"}
                                THEN "raised" ELSE "ok"
            /\ result'.status = "raised" => DOMAIN result' = {"status", "error"}
            /\ (result'.status = "ok" /\ gui'.component = "assembly") =>
                  [k \in DOMAIN result'.value |-> result'.value[k][1].kind]
                      = AssemblyKinds
       /\ (call'.fn = "update_preview" /\ result'.status = "raised") =>
            /\ dialog' = [kind |-> "critical", title |-> "Model build error"]
            /\ viewer' = viewer
            /\ size_value' = size_value
            /\ fs' = fs
       /\ (call'.fn = "export_model" /\ result'.status = "raised") =>
            /\ dialog' = [kind |-> "critical", title |-> "Export error"]
            /\ fs' = fs
            /\ viewer' = viewer
            /\ size_value' = size_value
       /\ viewer'.shown => WholeMesh(viewer'.mesh)
       /\ \A f \in fs'.files : f.kind = "compound" => f.solids = 6
    ]_vars

C12_Witness ==
    /\ call.fn = "update_preview"
    /\ call.raises = "bone"
    /\ result.status = "raised"
    /\ dialog = [kind |-> "critical", title |-> "Model build error"]
    /\ gui.component = "assembly"
    /\ gui.b = Mm(12)
    /\ viewer.shown
    /\ viewer.mesh.kind = "compound"
    /\ viewer.mesh.bbox.zhi = Mm(120)
    /\ size_value = [measured |-> TRUE, text |-> <<10900, 15000, 12000>>]
    /\ fs.files # {}

===========================================================================
